---- MODULE Spec2Model ----
(***************************************************************************)
(* Tic-tac-toe demo (03-tic-tac-toe): the stored state of App (gameTurns,  *)
(* players), the values App derives from it on every render (activePlayer, *)
(* gameBoard, winner, hasDraw) and the handlers that update the state.     *)
(* The arrays deriveGameBoard works on, as objects in a store.             *)
(* Timer demo (06-refs-and-portals): one TimerChallenge with its           *)
(* ResultModal.                                                            *)
(***************************************************************************)
EXTENDS Integers, Sequences, FiniteSets, TLC

VARIABLES
    gameTurns,     \* App state: the move log, most recent turn first
    players,       \* App state: symbol -> display name
    activePlayer,  \* render: deriveActivePlayer(gameTurns)
    gameBoard,     \* render: deriveGameBoard(gameTurns)
    winner,        \* render: deriveWinner(gameBoard, players)
    hasDraw,       \* render: gameTurns.length === 9 && !winner
    prevTurns,     \* the array the updater of the current game's last
                   \* handleSelectSquare received, as that call left it
    lastUpdate,    \* the handler that last called setGameTurns
    store,         \* the row arrays that exist: address -> the row's cells
    calls,         \* the calls made on the store so far, with their results
    targetTime,    \* TimerChallenge prop, in seconds
    remainingTime, \* TimerChallenge state, in milliseconds
    timerRef,      \* timerRef.current: the interval id stored last
    intervals,     \* the ids of the intervals that are set and not cleared
    modalOpen,     \* whether the dialog of ResultModal is open
    updates,       \* the queue of updates of remainingTime React holds
    baseState,     \* the remainingTime React applies the queue to
    closeEvents,   \* the close events of the dialog queued for delivery
    renderedScore, \* the scorePercentage ResultModal rendered last
    renderedRating \* the performanceRating ResultModal rendered last

vars == <<gameTurns, players, activePlayer, gameBoard, winner, hasDraw,
          prevTurns, lastUpdate, store, calls,
          targetTime, remainingTime, timerRef, intervals, modalOpen,
          updates, baseState, closeEvents, renderedScore, renderedRating>>

appVars == <<gameTurns, players, activePlayer, gameBoard, winner, hasDraw,
             prevTurns, lastUpdate>>

storeVars == <<store, calls>>

timerVars == <<targetTime, remainingTime, timerRef, intervals, modalOpen,
               updates, baseState, closeEvents>>

modalVars == <<renderedScore, renderedRating>>

----------------------------------------------------------------------------
(* JavaScript values *)

Null == "<null>"
Undefined == "<undefined>"
NotEvaluated == "<not evaluated>"
NotMounted == "<not mounted>"

\* JavaScript truthiness of a cell symbol or of a name
Truthy(v) == v # Null /\ v # Undefined /\ v # ""

Symbols == {"X", "O"}
Index == 0..2
Squares == [row : Index, col : Index]
Turns == [square : Squares, player : Symbols]

----------------------------------------------------------------------------
(* Static data *)

PLAYERS == [X |-> "Player 1", O |-> "Player 2"]

INITIAL_GAME_BOARD == [r \in Index |-> [c \in Index |-> Null]]

Sq(r, c) == [row |-> r, column |-> c]

\* mutant: the first row is missing from the table (the second row is
\* listed twice)
WINNING_COMBINATIONS_NoFirstRow ==
    << <<Sq(1, 0), Sq(1, 1), Sq(1, 2)>>,
       <<Sq(1, 0), Sq(1, 1), Sq(1, 2)>>,
       <<Sq(2, 0), Sq(2, 1), Sq(2, 2)>>,
       <<Sq(0, 0), Sq(1, 0), Sq(2, 0)>>,
       <<Sq(0, 1), Sq(1, 1), Sq(2, 1)>>,
       <<Sq(0, 2), Sq(1, 2), Sq(2, 2)>>,
       <<Sq(0, 0), Sq(1, 1), Sq(2, 2)>>,
       <<Sq(0, 2), Sq(1, 1), Sq(2, 0)>> >>

WINNING_COMBINATIONS ==
    << <<Sq(0, 0), Sq(0, 1), Sq(0, 2)>>,
       <<Sq(1, 0), Sq(1, 1), Sq(1, 2)>>,
       <<Sq(2, 0), Sq(2, 1), Sq(2, 2)>>,
       <<Sq(0, 0), Sq(1, 0), Sq(2, 0)>>,
       <<Sq(0, 1), Sq(1, 1), Sq(2, 1)>>,
       <<Sq(0, 2), Sq(1, 2), Sq(2, 2)>>,
       <<Sq(0, 0), Sq(1, 1), Sq(2, 2)>>,
       <<Sq(0, 2), Sq(1, 1), Sq(2, 0)>> >>

----------------------------------------------------------------------------
(* The derivation functions *)

\* mutant: looks at the oldest turn instead of the most recent one
deriveActivePlayer_Oldest(turns) ==
    IF Len(turns) > 0 /\ turns[Len(turns)].player = "X" THEN "O" ELSE "X"

\* mutant: O moves first on an empty log
deriveActivePlayer_OFirst(turns) ==
    IF Len(turns) = 0 \/ turns[1].player = "X" THEN "O" ELSE "X"

deriveActivePlayer(turns) ==
    IF Len(turns) > 0 /\ turns[1].player = "X" THEN "O" ELSE "X"

\* mutant: the loop stops one turn early
RECURSIVE replayTurns_SkipLast(_, _, _)
replayTurns_SkipLast(board, turns, i) ==
    IF i >= Len(turns) THEN board
    ELSE LET turn == turns[i]
             row == turn.square.row
             col == turn.square.col
         IN  replayTurns_SkipLast([board EXCEPT ![row][col] = turn.player],
                                  turns, i + 1)

\* the for...of loop of deriveGameBoard from position i of the log onwards
RECURSIVE replayTurns(_, _, _)
replayTurns(board, turns, i) ==
    IF i > Len(turns) THEN board
    ELSE LET turn == turns[i]
             row == turn.square.row
             col == turn.square.col
         IN  replayTurns([board EXCEPT ![row][col] = turn.player], turns, i + 1)

\* mutant: row and column swapped when a turn is written to the board
RECURSIVE replayTransposed(_, _, _)
replayTransposed(board, turns, i) ==
    IF i > Len(turns) THEN board
    ELSE LET turn == turns[i]
             row == turn.square.row
             col == turn.square.col
         IN  replayTransposed([board EXCEPT ![col][row] = turn.player], turns, i + 1)

deriveGameBoard_Transposed(turns) == replayTransposed(INITIAL_GAME_BOARD, turns, 1)

\* mutant: the log is replayed from its oldest turn to its most recent one
RECURSIVE replayBackwards(_, _, _)
replayBackwards(board, turns, i) ==
    IF i < 1 THEN board
    ELSE LET turn == turns[i]
             row == turn.square.row
             col == turn.square.col
         IN  replayBackwards([board EXCEPT ![row][col] = turn.player], turns, i - 1)

deriveGameBoard_OldestFirst(turns) == replayBackwards(INITIAL_GAME_BOARD, turns, Len(turns))

deriveGameBoard(turns) == replayTurns(INITIAL_GAME_BOARD, turns, 1)

\* mutant: the third square of a combination is not compared
checkCombination_IgnoreThird(current, board, registry, combination) ==
    LET firstSquareSymbol == board[combination[1].row][combination[1].column]
        secondSquareSymbol == board[combination[2].row][combination[2].column]
    IN  IF /\ Truthy(firstSquareSymbol)
           /\ firstSquareSymbol = secondSquareSymbol
        THEN registry[firstSquareSymbol]
        ELSE current

\* mutant: once a winner is found, later combinations do not replace it
checkCombination_FirstWins(current, board, registry, combination) ==
    LET firstSquareSymbol == board[combination[1].row][combination[1].column]
        secondSquareSymbol == board[combination[2].row][combination[2].column]
        thirdSquareSymbol == board[combination[3].row][combination[3].column]
    IN  IF /\ current = Undefined
           /\ Truthy(firstSquareSymbol)
           /\ firstSquareSymbol = secondSquareSymbol
           /\ firstSquareSymbol = thirdSquareSymbol
        THEN registry[firstSquareSymbol]
        ELSE current

\* mutant: the winner is the symbol of the line, not the name registered
\* for it
checkCombination_Symbol(current, board, registry, combination) ==
    LET firstSquareSymbol == board[combination[1].row][combination[1].column]
        secondSquareSymbol == board[combination[2].row][combination[2].column]
        thirdSquareSymbol == board[combination[3].row][combination[3].column]
    IN  IF /\ Truthy(firstSquareSymbol)
           /\ firstSquareSymbol = secondSquareSymbol
           /\ firstSquareSymbol = thirdSquareSymbol
        THEN firstSquareSymbol
        ELSE current

\* the winner variable of deriveWinner after looking at one combination
checkCombination(current, board, registry, combination) ==
    LET firstSquareSymbol == board[combination[1].row][combination[1].column]
        secondSquareSymbol == board[combination[2].row][combination[2].column]
        thirdSquareSymbol == board[combination[3].row][combination[3].column]
    IN  IF /\ Truthy(firstSquareSymbol)
           /\ firstSquareSymbol = secondSquareSymbol
           /\ firstSquareSymbol = thirdSquareSymbol
        THEN registry[firstSquareSymbol]
        ELSE current

\* the for...of loop of deriveWinner from combination i onwards
RECURSIVE scanCombinations(_, _, _, _)
scanCombinations(current, board, registry, i) ==
    IF i > Len(WINNING_COMBINATIONS) THEN current
    ELSE scanCombinations(
             checkCombination(current, board, registry, WINNING_COMBINATIONS[i]),
             board, registry, i + 1)

deriveWinner(board, registry) == scanCombinations(Undefined, board, registry, 1)

\* mutant: the length of the log is not tested
deriveHasDraw_NoLength(turns, w) == ~Truthy(w)

deriveHasDraw(turns, w) == Len(turns) = 9 /\ ~Truthy(w)

\* what App renders from the stored state
Render(turns, registry) ==
    LET board == deriveGameBoard(turns)
        w == deriveWinner(board, registry)
    IN  /\ activePlayer' = deriveActivePlayer(turns)
        /\ gameBoard' = board
        /\ winner' = w
        /\ hasDraw' = deriveHasDraw(turns, w)

----------------------------------------------------------------------------
(* The handlers of App *)

\* mutant: the new turn is put after the previous turns
updatedTurns_Append(turns, rowIndex, colIndex) ==
    turns \o <<[square |-> [row |-> rowIndex, col |-> colIndex],
                player |-> deriveActivePlayer(turns)]>>

\* mutant: every turn is recorded for X
updatedTurns_AlwaysX(turns, rowIndex, colIndex) ==
    <<[square |-> [row |-> rowIndex, col |-> colIndex], player |-> "X"]>> \o turns

\* the array the updater passed to setGameTurns returns
updatedTurns(turns, rowIndex, colIndex) ==
    <<[square |-> [row |-> rowIndex, col |-> colIndex],
       player |-> deriveActivePlayer(turns)]>> \o turns

\* the array the updater received, after the updater has run: the spread
\* copies its entries and nothing writes to it
turnsAfterUpdate(turns, rowIndex, colIndex) == turns

handleSelectSquare(rowIndex, colIndex) ==
    /\ gameTurns' = updatedTurns(gameTurns, rowIndex, colIndex)
    /\ prevTurns' = turnsAfterUpdate(gameTurns, rowIndex, colIndex)
    /\ lastUpdate' = "handleSelectSquare"
    /\ UNCHANGED players
    /\ Render(gameTurns', players')

\* mutant: the previous registry is not spread into the new one
handlePlayerNameChange_NoSpread(symbol, newName) ==
    /\ players' = [s \in Symbols |-> IF s = symbol THEN newName ELSE Undefined]
    /\ UNCHANGED <<gameTurns, prevTurns, lastUpdate>>
    /\ Render(gameTurns', players')

handlePlayerNameChange(symbol, newName) ==
    /\ players' = [players EXCEPT ![symbol] = newName]
    /\ UNCHANGED <<gameTurns, prevTurns, lastUpdate>>
    /\ Render(gameTurns', players')

handleRestart ==
    /\ gameTurns' = <<>>
    /\ prevTurns' = <<>>
    /\ lastUpdate' = "handleRestart"
    /\ players' = PLAYERS
    /\ Render(gameTurns', players')

----------------------------------------------------------------------------
(* App driven through its user interface *)

\* mutant: the buttons are never disabled
SquareEnabled_Always(board, rowIndex, colIndex) == TRUE

\* GameBoard: the button of a square is disabled once it shows a symbol
SquareEnabled(board, rowIndex, colIndex) == board[rowIndex][colIndex] = Null

\* GameOver, with its rematch button, is rendered only when (winner || hasDraw)
GameOverShown(w, draw) == Truthy(w) \/ draw

\* The name edited in the games explored is X's, to the empty string
EditedSymbols == {"X"}
EnteredNames == {""}

\* the store when the module is loaded: the three rows of
\* INITIAL_GAME_BOARD, at the addresses 1, 2 and 3
InitStore ==
    /\ store = [a \in 1..3 |-> INITIAL_GAME_BOARD[a - 1]]
    /\ calls = <<>>

\* no TimerChallenge is part of the tic-tac-toe application
TimerNotMounted ==
    /\ targetTime = NotMounted
    /\ remainingTime = NotMounted
    /\ timerRef = NotMounted
    /\ intervals = {}
    /\ modalOpen = FALSE
    /\ updates = <<>>
    /\ baseState = NotMounted
    /\ closeEvents = 0
    /\ renderedScore = NotMounted
    /\ renderedRating = NotMounted

Init ==
    /\ gameTurns = <<>>
    /\ players = PLAYERS
    /\ activePlayer = deriveActivePlayer(<<>>)
    /\ gameBoard = deriveGameBoard(<<>>)
    /\ winner = deriveWinner(deriveGameBoard(<<>>), PLAYERS)
    /\ hasDraw = deriveHasDraw(<<>>, deriveWinner(deriveGameBoard(<<>>), PLAYERS))
    /\ prevTurns = <<>>
    /\ lastUpdate = "none"
    /\ InitStore
    /\ TimerNotMounted

SelectSquare ==
    \E rowIndex \in Index, colIndex \in Index :
        /\ SquareEnabled(gameBoard, rowIndex, colIndex)
        /\ handleSelectSquare(rowIndex, colIndex)
        /\ UNCHANGED <<storeVars, timerVars, modalVars>>

ChangeName ==
    \E symbol \in EditedSymbols, newName \in EnteredNames :
        /\ handlePlayerNameChange(symbol, newName)
        /\ UNCHANGED <<storeVars, timerVars, modalVars>>

Restart ==
    /\ GameOverShown(winner, hasDraw)
    /\ handleRestart
    /\ UNCHANGED <<storeVars, timerVars, modalVars>>

Next == SelectSquare \/ ChangeName \/ Restart

Spec == Init /\ [][Next]_vars

----------------------------------------------------------------------------
(* Games played and restarted with the names left as they are *)

NextGame == SelectSquare \/ Restart

SpecGame == Init /\ [][NextGame]_vars

----------------------------------------------------------------------------
(* A game played after X's name has been saved as the empty string *)

InitRenamed ==
    /\ gameTurns = <<>>
    /\ players = [PLAYERS EXCEPT !["X"] = ""]
    /\ activePlayer = deriveActivePlayer(<<>>)
    /\ gameBoard = deriveGameBoard(<<>>)
    /\ winner = deriveWinner(deriveGameBoard(<<>>), players)
    /\ hasDraw = deriveHasDraw(<<>>, deriveWinner(deriveGameBoard(<<>>), players))
    /\ prevTurns = <<>>
    /\ lastUpdate = "none"
    /\ InitStore
    /\ TimerNotMounted

NextRenamed == SelectSquare

SpecRenamed == InitRenamed /\ [][NextRenamed]_vars

----------------------------------------------------------------------------
(* handleSelectSquare called for any square, occupied or not: the handler  *)
(* itself does not look at the board                                       *)

MaxLogLen == 4

CallSelectSquare ==
    \E rowIndex \in Index, colIndex \in Index :
        /\ Len(gameTurns) < MaxLogLen
        /\ handleSelectSquare(rowIndex, colIndex)
        /\ UNCHANGED <<storeVars, timerVars, modalVars>>

NextLog == CallSelectSquare

SpecLog == Init /\ [][NextLog]_vars

----------------------------------------------------------------------------
(* deriveWinner applied to every board and every registry *)

AllBoards == [Index -> [Index -> {Null, "X", "O"}]]

Names(symbol) == {PLAYERS[symbol], "", "Max"}

Registries == [X : Names("X"), O : Names("O")]

InitWinner ==
    /\ gameTurns = <<>>
    /\ players \in Registries
    /\ activePlayer = NotEvaluated
    /\ gameBoard \in AllBoards
    /\ winner = NotEvaluated
    /\ hasDraw = FALSE
    /\ prevTurns = <<>>
    /\ lastUpdate = "none"
    /\ InitStore
    /\ TimerNotMounted

EvaluateWinner ==
    /\ winner = NotEvaluated
    /\ winner' = deriveWinner(gameBoard, players)
    /\ UNCHANGED <<gameTurns, players, activePlayer, gameBoard, hasDraw,
                   prevTurns, lastUpdate>>
    /\ UNCHANGED <<storeVars, timerVars, modalVars>>

NextWinner == EvaluateWinner

SpecWinner == InitWinner /\ [][NextWinner]_vars

----------------------------------------------------------------------------
(* App with both name fields edited, before, during and after games played *)
(* on six of the squares: X can complete row 0, O the anti-diagonal        *)

PlayedSquares == {<<0, 0>>, <<0, 1>>, <<0, 2>>, <<1, 0>>, <<1, 1>>, <<2, 0>>}

SelectPlayedSquare ==
    \E <<rowIndex, colIndex>> \in PlayedSquares :
        /\ SquareEnabled(gameBoard, rowIndex, colIndex)
        /\ handleSelectSquare(rowIndex, colIndex)
        /\ UNCHANGED <<storeVars, timerVars, modalVars>>

ChangeAnyName ==
    \E symbol \in Symbols :
        \E newName \in Names(symbol) :
            /\ handlePlayerNameChange(symbol, newName)
            /\ UNCHANGED <<storeVars, timerVars, modalVars>>

NextRegistry == SelectPlayedSquare \/ ChangeAnyName \/ Restart

SpecRegistry == Init /\ [][NextRegistry]_vars

----------------------------------------------------------------------------
(* deriveGameBoard and deriveWinner on arrays that are objects: a board is *)
(* an outer array of three row addresses, a row lives in the store         *)

\* the outer array of INITIAL_GAME_BOARD
INITIAL_GAME_BOARD_ROWS == <<1, 2, 3>>

\* mutant: [...INITIAL_GAME_BOARD], a new outer array of the same rows
copyBoard_Shallow(st, rows) == [store |-> st, grid |-> rows]

\* [...rows.map((array) => [...array])]: a new outer array of three new rows
\* that hold the cells the copied rows hold at the time of the call
copyBoard(st, rows) ==
    [store |-> st \o <<st[rows[1]], st[rows[2]], st[rows[3]]>>,
     grid |-> <<Len(st) + 1, Len(st) + 2, Len(st) + 3>>]

\* gameBoard[row][col] = player
writeSquare(st, grid, row, col, player) ==
    [st EXCEPT ![grid[row + 1]][col] = player]

\* the for...of loop of deriveGameBoard from position i of the log onwards
RECURSIVE writeTurns(_, _, _, _)
writeTurns(st, grid, turns, i) ==
    IF i > Len(turns) THEN st
    ELSE LET turn == turns[i]
             row == turn.square.row
             col == turn.square.col
         IN  writeTurns(writeSquare(st, grid, row, col, turn.player),
                        grid, turns, i + 1)

\* deriveGameBoard run on the store st: the store it leaves and the outer
\* array it returns
deriveGameBoardInStore(st, turns) ==
    LET copy == copyBoard(st, INITIAL_GAME_BOARD_ROWS)
    IN  [store |-> writeTurns(copy.store, copy.grid, turns, 1),
         grid |-> copy.grid]

\* the cells read through an outer array: gameBoard[row][column]
boardAt(st, grid) == [r \in Index |-> st[grid[r + 1]]]

\* the final value of the winner variable of the last deriveWinner call
lastWinner ==
    LET done == {i \in 1..Len(calls) : calls[i].op = "deriveWinner"}
    IN  IF done = {} THEN Undefined
        ELSE calls[CHOOSE i \in done : \A j \in done : j <= i].result

\* mutant: the winner variable is declared outside the function and keeps
\* its value from one call to the next
deriveWinnerInStore_KeptWinner(st, grid, registry) ==
    scanCombinations(lastWinner, boardAt(st, grid), registry, 1)

\* deriveWinner called with an outer array of the store
deriveWinnerInStore(st, grid, registry) ==
    deriveWinner(boardAt(st, grid), registry)

MaxCalls == 5

\* the logs, cells and registries the calls are made with
CalledLogs ==
    { <<>>,
      << [square |-> [row |-> 1, col |-> 1], player |-> "X"] >>,
      << [square |-> [row |-> 0, col |-> 2], player |-> "X"],
         [square |-> [row |-> 1, col |-> 1], player |-> "O"],
         [square |-> [row |-> 0, col |-> 1], player |-> "X"],
         [square |-> [row |-> 2, col |-> 0], player |-> "O"],
         [square |-> [row |-> 0, col |-> 0], player |-> "X"] >> }
WrittenSquares == {<<2, 2>>}
WrittenSymbols == {"O"}
CalledRegistries == {PLAYERS, [X |-> "Max", O |-> ""]}

\* the outer arrays deriveGameBoard has returned so far
ReturnedGrids ==
    {calls[i].grid : i \in {j \in 1..Len(calls) : calls[j].op = "deriveGameBoard"}}

CallDeriveGameBoard ==
    \E turns \in CalledLogs :
        LET out == deriveGameBoardInStore(store, turns)
        IN  /\ Len(calls) < MaxCalls
            /\ store' = out.store
            /\ calls' = Append(calls, [op |-> "deriveGameBoard",
                                       turns |-> turns,
                                       grid |-> out.grid,
                                       registry |-> Null,
                                       result |-> boardAt(out.store, out.grid)])
            /\ UNCHANGED <<gameTurns, players, activePlayer, gameBoard, winner,
                           hasDraw, prevTurns, lastUpdate, timerVars, modalVars>>

\* the caller writes into a board it was given
WriteReturnedBoard ==
    \E grid \in ReturnedGrids, square \in WrittenSquares, symbol \in WrittenSymbols :
        /\ Len(calls) < MaxCalls
        /\ store' = writeSquare(store, grid, square[1], square[2], symbol)
        /\ calls' = Append(calls, [op |-> "write",
                                   turns |-> <<>>,
                                   grid |-> grid,
                                   registry |-> Null,
                                   result |-> Null])
        /\ UNCHANGED <<gameTurns, players, activePlayer, gameBoard, winner,
                       hasDraw, prevTurns, lastUpdate, timerVars, modalVars>>

CallDeriveWinner ==
    \E grid \in ReturnedGrids, registry \in CalledRegistries :
        /\ Len(calls) < MaxCalls
        /\ calls' = Append(calls, [op |-> "deriveWinner",
                                   turns |-> <<>>,
                                   grid |-> grid,
                                   registry |-> registry,
                                   board |-> boardAt(store, grid),
                                   result |-> deriveWinnerInStore(store, grid, registry)])
        /\ UNCHANGED <<gameTurns, players, activePlayer, gameBoard, winner,
                       hasDraw, prevTurns, lastUpdate, store, timerVars,
                       modalVars>>

NextCalls == CallDeriveGameBoard \/ WriteReturnedBoard \/ CallDeriveWinner

SpecCalls == Init /\ [][NextCalls]_vars

----------------------------------------------------------------------------
(* TimerChallenge with its ResultModal *)

\* the targetTime props App passes to its four TimerChallenge components
TargetTimes == {2, 5, 8, 10}

\* mutant: a remaining time of 0 counts as running
timerActive_FromZero(remaining, target) ==
    remaining >= 0 /\ remaining < target * 1000

timerActive(remaining, target) == remaining > 0 /\ remaining < target * 1000

timerExpired(remaining) == remaining <= 0

\* useRef(null): no interval id is stored; setInterval returns positive
\* ids, and clearInterval of null clears nothing
NoInterval == 0

\* the id setInterval returns: one it has not returned before
newIntervalId == timerRef + 1

\* the imperative handle of ResultModal.  open(): showModal() opens the
\* dialog as a modal, and does nothing to a dialog that is open as one
open == modalOpen' = TRUE

\* close(): a dialog that is open closes at once and its close event is
\* queued, a dialog that is not open is left as it is; the Close button
\* (form method="dialog") and Escape close the dialog the same way
close ==
    IF modalOpen
    THEN /\ modalOpen' = FALSE
         /\ closeEvents' = closeEvents + 1
    ELSE UNCHANGED <<modalOpen, closeEvents>>

clearInterval(id) == intervals' = intervals \ {id}

handleStartChallenge ==
    /\ timerRef' = newIntervalId
    /\ intervals' = intervals \cup {newIntervalId}
    /\ UNCHANGED <<targetTime, remainingTime, modalOpen, updates, baseState,
                   closeEvents>>

\* the priority React gives an update: that of the event whose handler
\* queues it.  The close event of the dialog is a discrete event, the
\* callback of an interval runs in no event
SyncLane == "SyncLane"

DefaultLane == "DefaultLane"

\* an update a render has kept in the queue after one it skipped
NoLane == "NoLane"

\* setRemainingTime(update): the queue after the call.  React applies the
\* update when it renders the component at the priority of the update
setRemainingTime(update) == Append(updates, update)

\* the callback of an interval: it passes its updater to setRemainingTime
intervalCallback ==
    /\ updates' = setRemainingTime([kind |-> "updater", lane |-> DefaultLane])
    /\ UNCHANGED <<targetTime, remainingTime, timerRef, intervals, modalOpen,
                   baseState, closeEvents>>

\* mutant: the time is up only below 0
updater_BelowZero(prevRemainingTime) ==
    IF prevRemainingTime < 0
    THEN [timeIsUp |-> TRUE, returns |-> 0]
    ELSE [timeIsUp |-> FALSE, returns |-> prevRemainingTime - 10]

\* the updater: what it returns, and whether it takes the branch that
\* clears the interval and opens the result modal
updater(prevRemainingTime) ==
    IF prevRemainingTime <= 0
    THEN [timeIsUp |-> TRUE, returns |-> 0]
    ELSE [timeIsUp |-> FALSE, returns |-> prevRemainingTime - 10]

\* React applies the queue to the base state, in the order the updates
\* were queued.  An update whose priority the render does not include is
\* skipped: it stays in the queue with every update after it, and the base
\* state becomes the state before the first update skipped.  The result:
\* the state rendered, the base state and the queue left, and whether an
\* updater found the time up
processUpdates(queue, base, renderLanes) ==
    LET included(update) == update.lane = NoLane \/ update.lane \in renderLanes
        after[i \in 0..Len(queue)] ==
            IF i = 0
            THEN [state |-> base, baseState |-> base, skipped |-> FALSE,
                  queue |-> <<>>, timeIsUp |-> FALSE]
            ELSE IF ~included(queue[i])
                 THEN [after[i - 1] EXCEPT
                          !.baseState = IF after[i - 1].skipped THEN @
                                        ELSE after[i - 1].state,
                          !.skipped = TRUE,
                          !.queue = Append(@, queue[i])]
                 ELSE [after[i - 1] EXCEPT
                          !.state = IF queue[i].kind = "updater"
                                    THEN updater(@).returns
                                    ELSE queue[i].value,
                          !.timeIsUp = \/ @
                                       \/ /\ queue[i].kind = "updater"
                                          /\ updater(after[i - 1].state).timeIsUp,
                          !.queue = IF after[i - 1].skipped
                                    THEN Append(@, [queue[i] EXCEPT
                                                       !.lane = NoLane])
                                    ELSE @]
        last == after[Len(queue)]
    IN  [last EXCEPT !.baseState = IF last.skipped THEN @ ELSE last.state]

\* React renders TimerChallenge with the updates of the queue that have
\* the priority of the render: the updaters run now, with the
\* timerRef.current of now
renderTimerChallenge(queue, renderLanes) ==
    LET processed == processUpdates(queue, baseState, renderLanes)
    IN  /\ remainingTime' = processed.state
        /\ baseState' = processed.baseState
        /\ updates' = processed.queue
        /\ IF processed.timeIsUp
           THEN clearInterval(timerRef) /\ open
           ELSE UNCHANGED <<intervals, modalOpen>>
        /\ UNCHANGED <<targetTime, timerRef>>

handleStopChallenge ==
    /\ clearInterval(timerRef)
    /\ open
    /\ UNCHANGED <<targetTime, remainingTime, timerRef, updates, baseState,
                   closeEvents>>

\* mutant: the time is reset to targetTime, taken as milliseconds
handleReset_Seconds ==
    setRemainingTime([kind |-> "value", value |-> targetTime,
                      lane |-> SyncLane])

\* handleReset runs in the close event of the dialog: the queue after its
\* call of setRemainingTime
handleReset ==
    setRemainingTime([kind |-> "value", value |-> targetTime * 1000,
                      lane |-> SyncLane])

handleModalClose == handleReset

\* ResultModal: the onClose handler of the dialog
handleCloseModal == handleModalClose

\* neither the tic-tac-toe App nor its module is part of the timer
\* application
AppNotMounted ==
    /\ gameTurns = NotMounted
    /\ players = NotMounted
    /\ activePlayer = NotMounted
    /\ gameBoard = NotMounted
    /\ winner = NotMounted
    /\ hasDraw = FALSE
    /\ prevTurns = NotMounted
    /\ lastUpdate = "none"
    /\ store = <<>>
    /\ calls = <<>>

InitTimer ==
    /\ AppNotMounted
    /\ targetTime \in TargetTimes
    /\ remainingTime = targetTime * 1000
    /\ timerRef = NoInterval
    /\ intervals = {}
    /\ modalOpen = FALSE
    /\ updates = <<>>
    /\ baseState = remainingTime
    /\ closeEvents = 0
    /\ renderedScore = NotEvaluated
    /\ renderedRating = NotEvaluated

MaxIntervals == 3

\* updaters queued by interval callbacks and not yet rendered
MaxUpdates == 2

\* close events queued and not yet delivered
MaxCloseEvents == 1

\* the button calls handleStartChallenge unless the timerActive of the last
\* render is true; while the dialog is open as a modal the page behind it
\* takes no clicks
ClickStart ==
    /\ ~modalOpen
    /\ ~timerActive(remainingTime, targetTime)
    /\ newIntervalId <= MaxIntervals
    /\ handleStartChallenge
    /\ UNCHANGED <<appVars, storeVars, modalVars>>

ClickStop ==
    /\ ~modalOpen
    /\ timerActive(remainingTime, targetTime)
    /\ handleStopChallenge
    /\ UNCHANGED <<appVars, storeVars, modalVars>>

\* the updaters of interval callbacks in a queue
Updaters(queue) == {i \in 1..Len(queue) : queue[i].lane = DefaultLane}

\* an interval that is set fires
Tick ==
    \E id \in intervals :
        /\ Cardinality(Updaters(updates)) < MaxUpdates
        /\ intervalCallback
        /\ UNCHANGED <<appVars, storeVars, modalVars>>

\* the render React has scheduled for the updates of interval callbacks, a
\* task of its own
RenderTimerChallenge ==
    /\ Updaters(updates) # {}
    /\ renderTimerChallenge(updates, {DefaultLane})
    /\ UNCHANGED closeEvents
    /\ UNCHANGED <<appVars, storeVars, modalVars>>

\* the user closes the dialog (Close button, Escape)
CloseModal ==
    /\ modalOpen
    /\ closeEvents < MaxCloseEvents
    /\ close
    /\ UNCHANGED <<targetTime, remainingTime, timerRef, intervals, updates,
                   baseState>>
    /\ UNCHANGED <<appVars, storeVars, modalVars>>

\* the close event of the dialog is delivered: React calls the onClose
\* handler and, the event being a discrete one, renders the update it
\* queued before the event ends
CloseEvent ==
    /\ closeEvents > 0
    /\ closeEvents' = closeEvents - 1
    /\ renderTimerChallenge(handleCloseModal, {SyncLane})
    /\ UNCHANGED <<appVars, storeVars, modalVars>>

NextTimer ==
    ClickStart \/ ClickStop \/ Tick \/ RenderTimerChallenge \/ CloseModal
        \/ CloseEvent

SpecTimer == InitTimer /\ [][NextTimer]_vars

----------------------------------------------------------------------------
(* ResultModal: the score and the rating it renders.  JavaScript numbers
   are IEEE-754 doubles; a positive double is modelled by the 53 bits of its
   significand, most significant first, and the exponent of the first bit. *)

RECURSIVE integerBits(_)
integerBits(v) ==
    IF v = 0 THEN <<>> ELSE Append(integerBits(v \div 2), v % 2)

RECURSIVE bitsInteger(_, _)
bitsInteger(bits, len) ==
    IF len = 0 THEN 0 ELSE 2 * bitsInteger(bits, len - 1) + bits[len]

\* round to nearest, ties to even: bits holds the exact leading bits, sticky
\* tells that nonzero bits follow them
roundToDouble(bits, sticky, exp) ==
    LET kept == SubSeq(bits, 1, 53)
        half == Len(bits) > 53 /\ bits[54] = 1
        beyond == sticky \/ \E i \in 55..Len(bits) : bits[i] = 1
        up == half /\ (beyond \/ kept[53] = 1)
        plusOne == [i \in 1..53 |->
                       IF \A j \in (i + 1)..53 : kept[j] = 1
                       THEN 1 - kept[i] ELSE kept[i]]
    IN  IF ~up THEN [mant |-> kept, exp |-> exp]
        ELSE IF \E j \in 1..53 : kept[j] = 0
             THEN [mant |-> plusOne, exp |-> exp]
             ELSE [mant |-> [i \in 1..53 |-> IF i = 1 THEN 1 ELSE 0],
                   exp |-> exp + 1]

RECURSIVE leadingShift(_, _, _)
leadingShift(dividend, divisor, s) ==
    IF dividend >= divisor THEN s
    ELSE leadingShift(2 * dividend, divisor, s + 1)

RECURSIVE powerOfTwo(_)
powerOfTwo(s) == IF s = 0 THEN 1 ELSE 2 * powerOfTwo(s - 1)

\* dividend / divisor for integers 0 < dividend <= divisor: long division
\* to 54 bits, then rounded
divideIntegers(dividend, divisor) ==
    LET shift == leadingShift(dividend, divisor, 0)
        rest[i \in 0..53] ==
            IF i = 0 THEN dividend * powerOfTwo(shift) - divisor
            ELSE (2 * rest[i - 1]) % divisor
        quotient == <<1>> \o [i \in 1..53 |-> (2 * rest[i - 1]) \div divisor]
    IN  roundToDouble(quotient, rest[53] # 0, -shift)

\* value * factor for a small positive integer factor: the exact product,
\* then rounded
multiplyDouble(value, factor) ==
    LET carry[i \in 1..54] ==
            IF i = 54 THEN 0
            ELSE (value.mant[i] * factor + carry[i + 1]) \div 2
        low == [i \in 1..53 |-> (value.mant[i] * factor + carry[i + 1]) % 2]
        product == integerBits(carry[1]) \o low
    IN  roundToDouble(product, FALSE, value.exp + Len(product) - 53)

\* Math.round of a positive double below 2^30: floor(value + 0.5)
mathRound(value) ==
    IF value.exp < -1 THEN 0
    ELSE IF value.exp = -1 THEN 1
    ELSE bitsInteger(value.mant, value.exp + 1) + value.mant[value.exp + 2]

targetTimeMs(target) == target * 1000

elapsedTime(target, remaining) == targetTimeMs(target) - remaining

\* 0 / targetTimeMs is 0, 0 * 100 is 0 and Math.round(0) is 0
scorePercentage(target, remaining) ==
    IF elapsedTime(target, remaining) = 0 THEN 0
    ELSE mathRound(multiplyDouble(divideIntegers(elapsedTime(target, remaining),
                                                 targetTimeMs(target)), 100))

\* the result prop TimerChallenge passes
result(remaining) == IF timerExpired(remaining) THEN "lost" ELSE "won"

performanceRating_ScoreFirst(res, score) ==
    IF score >= 90 THEN "PERFECT!"
    ELSE IF res = "lost" THEN "GAME OVER"
    ELSE IF score >= 75 THEN "EXCELLENT"
    ELSE IF score >= 50 THEN "GOOD"
    ELSE "OK"

\* the ratings are named by their text, without the emoji before it
performanceRating(res, score) ==
    IF res = "lost" THEN "GAME OVER"
    ELSE IF score >= 90 THEN "PERFECT!"
    ELSE IF score >= 75 THEN "EXCELLENT"
    ELSE IF score >= 50 THEN "GOOD"
    ELSE "OK"

\* TimerChallenge renders ResultModal with its state
renderResultModal ==
    /\ renderedScore' = scorePercentage(targetTime, remainingTime)
    /\ renderedRating' =
           performanceRating(result(remainingTime),
                             scorePercentage(targetTime, remainingTime))

\* the remaining times the interval callback produces
RemainingTimes(target) == {r \in 0..targetTimeMs(target) : r % 10 = 0}

\* the states of TimerChallenge in which no interval is set: before the first
\* Start, and with the result shown after Stop or after the time ran out
InitModal ==
    /\ AppNotMounted
    /\ targetTime \in TargetTimes
    /\ remainingTime \in RemainingTimes(targetTime)
    /\ modalOpen = (remainingTime < targetTimeMs(targetTime))
    /\ timerRef = IF modalOpen THEN NoInterval + 1 ELSE NoInterval
    /\ intervals = {}
    /\ updates = <<>>
    /\ baseState = remainingTime
    /\ closeEvents = 0
    /\ renderedScore = NotEvaluated
    /\ renderedRating = NotEvaluated

RenderResultModal ==
    /\ renderedRating = NotEvaluated
    /\ renderResultModal
    /\ UNCHANGED <<appVars, storeVars, timerVars>>

NextModal == RenderResultModal

SpecModal == InitModal /\ [][NextModal]_vars

----------------------------------------------------------------------------
(* The board, described independently of the derivation functions *)

Cells == Index \X Index

At(board, cell) == board[cell[1]][cell[2]]

Rows == {{<<r, c>> : c \in Index} : r \in Index}
Columns == {{<<r, c>> : r \in Index} : c \in Index}
Diagonals == {{<<i, i>> : i \in Index}, {<<i, 2 - i>> : i \in Index}}
Lines == Rows \cup Columns \cup Diagonals

CompleteLines(board) ==
    {L \in Lines : \E s \in Symbols : \A cell \in L : At(board, cell) = s}

EmptyLines(board) == {L \in Lines : \A cell \in L : At(board, cell) = Null}

LineSymbol(board, L) == At(board, CHOOSE cell \in L : TRUE)

NonEmptyCells(board) == {cell \in Cells : At(board, cell) # Null}

BoardFull(board) == NonEmptyCells(board) = Cells

SquareOf(turn) == <<turn.square.row, turn.square.col>>

NoDuplicateSquares(turns) ==
    \A i, j \in 1..Len(turns) : i # j => SquareOf(turns[i]) # SquareOf(turns[j])

\* the symbol of the k-th recorded move of a strictly alternating game
SymbolOfMove(k) == IF k % 2 = 1 THEN "X" ELSE "O"

\* turns[Len(turns)] is the first recorded move, turns[1] the last
Alternating(turns) ==
    \A i \in 1..Len(turns) : turns[i].player = SymbolOfMove(Len(turns) - i + 1)

\* the 3x3 board, indexed from 0, with the rows written out
Grid(row0, row1, row2) ==
    [r \in Index |-> [c \in Index |-> <<row0, row1, row2>>[r + 1][c + 1]]]

\* the 8 lines in the order of the table: rows 0-2, columns 0-2, the main
\* diagonal, the anti-diagonal
LinesInTableOrder ==
    << {<<0, 0>>, <<0, 1>>, <<0, 2>>},
       {<<1, 0>>, <<1, 1>>, <<1, 2>>},
       {<<2, 0>>, <<2, 1>>, <<2, 2>>},
       {<<0, 0>>, <<1, 0>>, <<2, 0>>},
       {<<0, 1>>, <<1, 1>>, <<2, 1>>},
       {<<0, 2>>, <<1, 2>>, <<2, 2>>},
       {<<0, 0>>, <<1, 1>>, <<2, 2>>},
       {<<0, 2>>, <<1, 1>>, <<2, 0>>} >>

CompletePositions(board) ==
    {i \in 1..8 : LinesInTableOrder[i] \in CompleteLines(board)}

FirstCompleteLine(board) ==
    LinesInTableOrder[CHOOSE i \in CompletePositions(board) :
                          \A j \in CompletePositions(board) : i <= j]

LastCompleteLine(board) ==
    LinesInTableOrder[CHOOSE i \in CompletePositions(board) :
                          \A j \in CompletePositions(board) : j <= i]

\* the log with its moves in the order p, a permutation of its positions
Permuted(turns, p) == [i \in 1..Len(turns) |-> turns[p[i]]]

Reversed(turns) == [i \in 1..Len(turns) |-> turns[Len(turns) + 1 - i]]

Positions(op) == {i \in 1..Len(calls) : calls[i].op = op}

\* the symbols that own a complete line of the board
WinningSymbols(board) == {LineSymbol(board, L) : L \in CompleteLines(board)}

OtherSymbol(symbol) == IF symbol = "X" THEN "O" ELSE "X"

\* the positions of the log that hold a move at the square of position i
SameSquare(turns, i) ==
    {j \in 1..Len(turns) : SquareOf(turns[j]) = SquareOf(turns[i])}

----------------------------------------------------------------------------
(* Claims *)

\* C1 (SpecWinner): on every board deriveWinner returns a winner exactly when
\* one of the 8 lines holds three equal non-empty symbols, the winner is the
\* registry name of the symbol of a complete line, and a line of three empty
\* cells is no win.
C1_WinnerIffCompleteLine ==
    winner # NotEvaluated =>
        /\ (winner # Undefined) <=> (CompleteLines(gameBoard) # {})
        /\ winner # Undefined =>
               \E L \in CompleteLines(gameBoard) :
                   winner = players[LineSymbol(gameBoard, L)]

C1_Witness ==
    /\ winner # NotEvaluated
    /\ winner # Undefined
    /\ CompleteLines(gameBoard) # {}
    /\ EmptyLines(gameBoard) # {}

\* C2 (SpecRenamed), as claimed: a draw is reported if and only if all 9 cells of the
\* board are non-empty and none of the 8 lines is complete.
C2_DrawIffFullAndNoLine ==
    hasDraw <=> (BoardFull(gameBoard) /\ CompleteLines(gameBoard) = {})

\* C3 (SpecGame), as claimed: once the board holds a complete line or is full, the
\* log does not change until a restart, which leaves an empty log and a game
\* in progress.
C3_TerminalUntilRestart ==
    [][(CompleteLines(gameBoard) # {} \/ BoardFull(gameBoard)) =>
          \/ gameTurns' = gameTurns
          \/ /\ lastUpdate' = "handleRestart"
             /\ gameTurns' = <<>>
             /\ CompleteLines(gameBoard') = {}
             /\ ~BoardFull(gameBoard')]_vars

\* C4 (SpecGame): on a log of N strictly alternating moves starting with X the
\* active player is X when N is even and O when N is odd.
C4_ActivePlayerByParity ==
    Alternating(gameTurns) =>
        activePlayer = (IF Len(gameTurns) % 2 = 0 THEN "X" ELSE "O")

C4_Witness ==
    /\ Len(gameTurns) = 5
    /\ Alternating(gameTurns)
    /\ activePlayer = "O"

\* C5 (SpecGame): for a log of N moves with no duplicate coordinates the board has
\* exactly N non-empty cells, the cell of every move holds the symbol of that
\* move and every other cell is empty.
C5_BoardMatchesLog ==
    NoDuplicateSquares(gameTurns) =>
        /\ Cardinality(NonEmptyCells(gameBoard)) = Len(gameTurns)
        /\ \A i \in 1..Len(gameTurns) :
               At(gameBoard, SquareOf(gameTurns[i])) = gameTurns[i].player
        /\ \A cell \in Cells :
               (\A i \in 1..Len(gameTurns) : SquareOf(gameTurns[i]) # cell)
                   => At(gameBoard, cell) = Null

C5_Witness ==
    /\ Len(gameTurns) = 5
    /\ NoDuplicateSquares(gameTurns)
    /\ Cardinality(NonEmptyCells(gameBoard)) = 5

\* C6 (SpecLog): recording a move gives a log whose head is the new move (the
\* selected square with the active player's symbol) and whose tail is the
\* previous log, and the previous array is as it was before the call.
C6_RecordPrepends ==
    [][\A rowIndex, colIndex \in Index :
          handleSelectSquare(rowIndex, colIndex) =>
              /\ Head(gameTurns') = [square |-> [row |-> rowIndex, col |-> colIndex],
                                     player |-> activePlayer]
              /\ Tail(gameTurns') = gameTurns
              /\ prevTurns' = gameTurns]_vars

C6_Witness ==
    /\ lastUpdate = "handleSelectSquare"
    /\ Len(gameTurns) >= 2
    /\ prevTurns = Tail(gameTurns)

\* C7 (SpecLog), as claimed: a cell that several moves of the log name holds
\* the symbol of the most recently recorded of them.
C7_NewestMoveWins ==
    \A i \in 1..Len(gameTurns) :
        (\A j \in SameSquare(gameTurns, i) : i <= j)
            => At(gameBoard, SquareOf(gameTurns[i])) = gameTurns[i].player

\* C7 (SpecLog), amended: a cell that several moves of the log name holds the
\* symbol of the first recorded of them, which deriveGameBoard replays last.
C7_OldestMoveWins ==
    \A i \in 1..Len(gameTurns) :
        (\A j \in SameSquare(gameTurns, i) : j <= i)
            => At(gameBoard, SquareOf(gameTurns[i])) = gameTurns[i].player

C7_Witness ==
    \E i, j \in 1..Len(gameTurns) :
        /\ i < j
        /\ j \in SameSquare(gameTurns, i)
        /\ gameTurns[i].player # gameTurns[j].player
        /\ At(gameBoard, SquareOf(gameTurns[j])) = gameTurns[j].player

\* C8 (SpecGame): in every log built by selecting enabled squares no two moves
\* share a coordinate, and the log holds at most 9 moves.
C8_NoDuplicateSquares ==
    /\ NoDuplicateSquares(gameTurns)
    /\ Len(gameTurns) \in 0..9

C8_Witness ==
    /\ Len(gameTurns) = 9
    /\ lastUpdate = "handleSelectSquare"

\* C9 (SpecGame): in every log built by selections the first recorded move is X's
\* and no two consecutive moves carry the same symbol.
C9_SymbolsAlternate ==
    /\ Len(gameTurns) > 0 => gameTurns[Len(gameTurns)].player = "X"
    /\ \A i \in 1..(Len(gameTurns) - 1) :
           gameTurns[i].player # gameTurns[i + 1].player

C9_Witness ==
    /\ Len(gameTurns) = 4
    /\ gameTurns[1].player = "O"
    /\ gameTurns[4].player = "X"

\* C10 (SpecGame): after a restart the log is empty, the active player is X, the
\* board is all empty and there is neither a winner nor a draw.
C10_RestartResets ==
    lastUpdate = "handleRestart" =>
        /\ gameTurns = <<>>
        /\ activePlayer = "X"
        /\ NonEmptyCells(gameBoard) = {}
        /\ winner = Undefined
        /\ ~hasDraw

C10_Witness ==
    /\ lastUpdate = "handleRestart"
    /\ gameTurns = <<>>

\* C12 (SpecRegistry): on the empty log, whatever the registry holds, the
\* active player is X, the board is 3x3 with all 9 cells empty, and there
\* is neither a winner nor a draw.
C12_EmptyLogValues ==
    gameTurns = <<>> =>
        /\ activePlayer = "X"
        /\ gameBoard = Grid(<<Null, Null, Null>>,
                            <<Null, Null, Null>>,
                            <<Null, Null, Null>>)
        /\ winner = Undefined
        /\ hasDraw = FALSE

C12_Witness ==
    /\ gameTurns = <<>>
    /\ players = [X |-> "", O |-> "Max"]
    /\ winner = Undefined
    /\ activePlayer = "X"

\* C13 (SpecRegistry): the log [(0,2,X),(1,1,O),(0,1,X),(2,0,O),(0,0,X)]
\* gives the board [[X,X,X],[_,O,_],[O,_,_]] and the winner is the name
\* the registry holds for X.
C13_ExampleLog ==
    gameTurns = << [square |-> [row |-> 0, col |-> 2], player |-> "X"],
                   [square |-> [row |-> 1, col |-> 1], player |-> "O"],
                   [square |-> [row |-> 0, col |-> 1], player |-> "X"],
                   [square |-> [row |-> 2, col |-> 0], player |-> "O"],
                   [square |-> [row |-> 0, col |-> 0], player |-> "X"] >>
    => /\ gameBoard = Grid(<<"X", "X", "X">>,
                           <<Null, "O", Null>>,
                           <<"O", Null, Null>>)
       /\ winner = players["X"]

C13_Witness ==
    /\ Len(gameTurns) = 5
    /\ SquareOf(gameTurns[1]) = <<0, 2>>
    /\ SquareOf(gameTurns[2]) = <<1, 1>>
    /\ SquareOf(gameTurns[3]) = <<0, 1>>
    /\ SquareOf(gameTurns[4]) = <<2, 0>>
    /\ SquareOf(gameTurns[5]) = <<0, 0>>
    /\ players.X = "Max"
    /\ winner = "Max"

\* C14 (SpecRegistry): a rename made while the board holds a complete line
\* leaves the board as it is, and the winner then reported is the name the
\* registry now holds for the symbol of the line: the new name when that
\* symbol was renamed, the unchanged name when the other symbol was.
C14_RenameChangesWinnerName ==
    [][\A symbol \in Symbols : \A newName \in Names(symbol) :
          (handlePlayerNameChange(symbol, newName)
              /\ WinningSymbols(gameBoard) # {})
          => /\ gameBoard' = gameBoard
             /\ WinningSymbols(gameBoard) = {symbol} => winner' = newName
             /\ WinningSymbols(gameBoard) = {OtherSymbol(symbol)} =>
                    winner' = players[OtherSymbol(symbol)]]_vars

C14_Witness ==
    /\ WinningSymbols(gameBoard) = {"O"}
    /\ players.O = "Max"
    /\ winner = "Max"
    /\ players.X = ""

\* C15 (SpecRegistry): a rename sets the entry of the named symbol and
\* leaves the other entry, the log, the board and the active player as they
\* were; recording a move leaves the registry as it was.
C15_RegistryAndLogIndependent ==
    [][/\ \A symbol \in Symbols : \A newName \in Names(symbol) :
              handlePlayerNameChange(symbol, newName) =>
                  /\ players'[symbol] = newName
                  /\ players'[OtherSymbol(symbol)] = players[OtherSymbol(symbol)]
                  /\ gameTurns' = gameTurns
                  /\ gameBoard' = gameBoard
                  /\ activePlayer' = activePlayer
       /\ \A rowIndex, colIndex \in Index :
              handleSelectSquare(rowIndex, colIndex) => players' = players]_vars

C15_Witness ==
    /\ players.X = "Max"
    /\ players.O = "Player 2"
    /\ Len(gameTurns) = 3
    /\ lastUpdate = "handleSelectSquare"

\* C16 (SpecCalls): after every call the rows of INITIAL_GAME_BOARD are all
\* empty; a call of deriveGameBoard returns rows that neither the template
\* nor an earlier returned board holds and leaves the earlier returned boards
\* as they were; a write into one returned board leaves every other returned
\* board as it was.
C16_FreshGrid ==
    [][LET new == calls'[Len(calls')]
       IN  /\ boardAt(store', INITIAL_GAME_BOARD_ROWS)
                  = Grid(<<Null, Null, Null>>, <<Null, Null, Null>>,
                         <<Null, Null, Null>>)
           /\ (Len(calls') > Len(calls) /\ new.op = "deriveGameBoard") =>
                  /\ \A k \in 1..3 :
                         /\ new.grid[k] \notin {1, 2, 3}
                         /\ \A g \in ReturnedGrids :
                                \A m \in 1..3 : new.grid[k] # g[m]
                  /\ \A g \in ReturnedGrids :
                         boardAt(store', g) = boardAt(store, g)
           /\ (Len(calls') > Len(calls) /\ new.op = "write") =>
                  \A g \in ReturnedGrids :
                      g # new.grid => boardAt(store', g) = boardAt(store, g)]_vars

C16_Witness ==
    /\ Len(calls) = 3
    /\ calls[1].op = "deriveGameBoard"
    /\ calls[2].op = "deriveGameBoard"
    /\ calls[1].turns # <<>>
    /\ calls[3].op = "write"
    /\ calls[3].grid = calls[1].grid
    /\ boardAt(store, calls[1].grid) # calls[1].result
    /\ boardAt(store, calls[2].grid) = calls[2].result
    /\ \A a \in 1..3 : \A c \in Index : store[a][c] = Null

\* C17 (SpecWinner): on a board with complete lines of both symbols the
\* winner is the name registered for the symbol of the last complete line
\* in table order.
C17_LastCompleteLineWins ==
    (winner # NotEvaluated /\ WinningSymbols(gameBoard) = Symbols) =>
        winner = players[LineSymbol(gameBoard, LastCompleteLine(gameBoard))]

C17_Witness ==
    /\ winner # NotEvaluated
    /\ WinningSymbols(gameBoard) = Symbols
    /\ LineSymbol(gameBoard, FirstCompleteLine(gameBoard)) = "X"
    /\ LineSymbol(gameBoard, LastCompleteLine(gameBoard)) = "O"
    /\ players.X = "Player 1"
    /\ winner = "Max"

\* C18 (SpecLog): for a log with no duplicate coordinates, deriveGameBoard
\* gives the same board for the log and for every permutation of its moves.
C18_ReplayOrderIrrelevant ==
    NoDuplicateSquares(gameTurns) =>
        \A p \in Permutations(1..Len(gameTurns)) :
            deriveGameBoard(Permuted(gameTurns, p)) = gameBoard

C18_Witness ==
    /\ Len(gameTurns) = 4
    /\ NoDuplicateSquares(gameTurns)
    /\ Reversed(gameTurns) # gameTurns
    /\ deriveGameBoard(Reversed(gameTurns)) = gameBoard

\* C19 (SpecCalls): two calls of deriveGameBoard with the same log return
\* boards with the same cells, and two calls of deriveWinner with the same
\* board cells and the same registry return the same winner, whatever calls
\* and writes were made before and between them.
C19_SameInputSameResult ==
    /\ \A i, j \in Positions("deriveGameBoard") :
           calls[i].turns = calls[j].turns => calls[i].result = calls[j].result
    /\ \A i, j \in Positions("deriveWinner") :
           (calls[i].board = calls[j].board /\ calls[i].registry = calls[j].registry)
               => calls[i].result = calls[j].result

C19_Witness ==
    /\ \E i, j \in Positions("deriveGameBoard") :
           /\ i + 1 < j
           /\ calls[i].turns = calls[j].turns
           /\ calls[i].turns # <<>>
           /\ calls[i].grid # calls[j].grid
    /\ \E i, j \in Positions("deriveWinner") :
           /\ i + 1 < j
           /\ calls[i].board = calls[j].board
           /\ calls[i].registry = calls[j].registry
           /\ calls[i].grid # calls[j].grid
           /\ calls[i].result = "Max"

\* C20 (SpecTimer): in no state of a TimerChallenge are timerActive and
\* timerExpired both true.
C20_NotActiveAndExpired ==
    ~(timerActive(remainingTime, targetTime) /\ timerExpired(remainingTime))

C20_Witness ==
    /\ timerExpired(remainingTime)
    /\ ~timerActive(remainingTime, targetTime)
    /\ intervals # {}
    /\ ~modalOpen

----------------------------------------------------------------------------
(* Claims about TimerChallenge and ResultModal *)

\* an updater finds the time of a running challenge run out and opens the
\* result modal: the queue rendered holds the ticks of the challenge only
ExpiryStep ==
    /\ RenderTimerChallenge
    /\ \A i \in 1..Len(updates) : updates[i].kind = "updater"
    /\ ~modalOpen
    /\ modalOpen'

\* C21 (SpecTimer): when the time of a started challenge runs out, the
\* result modal opens with result 'lost' at remainingTime = 0 and the
\* interval is cleared: no interval is left that could decrement
\* remainingTime after that.
C21_ExpiryEndsTheAttempt ==
    [][ExpiryStep =>
           /\ remainingTime' = 0
           /\ result(remainingTime') = "lost"
           /\ intervals' = {}]_vars

\* C22 (SpecTimer): whenever the close callback of the result modal has
\* run, remainingTime = targetTime * 1000, so the timer is neither active
\* nor expired and the button starts a new attempt.
C22_CloseResets ==
    [][CloseEvent =>
           /\ remainingTime' = targetTime' * 1000
           /\ ~timerActive(remainingTime', targetTime')
           /\ ~timerExpired(remainingTime')]_vars

C22_Witness ==
    /\ ~modalOpen
    /\ closeEvents = 0
    /\ timerRef # NoInterval
    /\ intervals = {}
    /\ remainingTime = targetTime * 1000

\* ResultModal has rendered the state of the challenge
Rendered == renderedRating # NotEvaluated

\* C23 (SpecModal): when the timer has expired (result 'lost',
\* remainingTime = 0), the score ResultModal computes and shows is 0.
C23_ExpiredScoresZero ==
    (Rendered /\ result(remainingTime) = "lost") => renderedScore = 0

\* numerator / denominator rounded to the nearest integer, a half rounded
\* up, in exact integer arithmetic
RoundedQuotient(numerator, denominator) ==
    (2 * numerator + denominator) \div (2 * denominator)

\* C24 (SpecModal): the score is in 0..100 for every remainingTime in
\* 0..targetTime*1000, and for a manual stop it is
\* round(100 * (targetTime*1000 - remainingTime) / (targetTime*1000)).
C24_ScoreIsRoundedPercentage ==
    Rendered =>
        /\ renderedScore \in 0..100
        /\ result(remainingTime) = "won" =>
               renderedScore =
                   RoundedQuotient(100 * (targetTime * 1000 - remainingTime),
                                   targetTime * 1000)

Results == {"won", "lost"}

Scores == 0..100

Ratings == {"GAME OVER", "PERFECT!", "EXCELLENT", "GOOD", "OK"}

\* the ratings that apply to a result and a score, by the table of the
\* scoring system
ApplicableRatings(res, score) ==
    {rating \in Ratings :
        CASE rating = "GAME OVER" -> res = "lost"
          [] rating = "PERFECT!" -> res # "lost" /\ score >= 90
          [] rating = "EXCELLENT" -> res # "lost" /\ 75 <= score /\ score < 90
          [] rating = "GOOD" -> res # "lost" /\ 50 <= score /\ score < 75
          [] rating = "OK" -> res # "lost" /\ score < 50}

\* C25 (SpecModal): for every result and score exactly one rating of the
\* table applies (GAME OVER for 'lost' whatever the score, else PERFECT from
\* 90, EXCELLENT from 75, GOOD from 50, OK below), and it is the rating
\* ResultModal computes and renders.
C25_ExactlyOneRating ==
    /\ \A res \in Results, score \in Scores :
           ApplicableRatings(res, score) = {performanceRating(res, score)}
    /\ Rendered =>
           ApplicableRatings(result(remainingTime), renderedScore)
               = {renderedRating}

C25_Witness ==
    /\ Rendered
    /\ result(remainingTime) = "lost"
    /\ renderedScore >= 90
    /\ renderedRating = "GAME OVER"

\* the Stop click on an active challenge
StopStep ==
    /\ ClickStop
    /\ timerActive(remainingTime, targetTime)

\* C26 (SpecTimer): stopping an active challenge clears the running
\* interval and opens the result modal with result 'won' and the
\* remainingTime of the moment of the stop, and while that modal is shown
\* its result does not become 'lost'.
C26_StopShowsWon ==
    [][/\ StopStep =>
              /\ intervals' = {}
              /\ remainingTime' = remainingTime
              /\ result(remainingTime') = "won"
       /\ (modalOpen /\ modalOpen' /\ result(remainingTime) = "won") =>
              result(remainingTime') = "won"]_vars

\* C27 (SpecTimer): a TimerChallenge has at most one live interval at any
\* time, and timerRef holds its id.
C27_AtMostOneInterval ==
    /\ Cardinality(intervals) <= 1
    /\ intervals # {} => intervals = {timerRef}

\* C28 (SpecTimer): from the moment the result modal is opened until it is
\* closed, remainingTime does not change.
C28_FrozenWhileModalOpen ==
    [][(modalOpen /\ modalOpen') => remainingTime' = remainingTime]_vars

\* the position of the last reset in a queue of updates, 0 if it has none
LastReset(queue) ==
    IF \E i \in 1..Len(queue) : queue[i].kind = "value"
    THEN CHOOSE i \in 1..Len(queue) :
             /\ queue[i].kind = "value"
             /\ \A j \in (i + 1)..Len(queue) : queue[j].kind # "value"
    ELSE 0

\* a time after a number of ticks: 10 less per tick, but not below 0
AfterTicks(time, ticks) ==
    IF time - 10 * ticks > 0 THEN time - 10 * ticks ELSE 0

\* C29 (SpecTimer): remainingTime is always a multiple of 10 with
\* 0 <= remainingTime <= targetTime * 1000, and each tick decrements it by
\* exactly 10 when it is positive and leaves it at 0 otherwise: the render
\* of the ticks queued leaves the time of the last reset in the queue (else
\* the time the queue is applied to), less 10 for each tick queued after
\* it, a close event leaves targetTime * 1000, and no other step changes
\* it.
C29_RemainingTimeOnGrid ==
    /\ [](/\ remainingTime % 10 = 0
          /\ 0 <= remainingTime
          /\ remainingTime <= targetTime * 1000)
    /\ [][IF RenderTimerChallenge
          THEN remainingTime' =
                   AfterTicks(IF LastReset(updates) = 0 THEN baseState
                              ELSE targetTime * 1000,
                              Len(updates) - LastReset(updates))
          ELSE IF CloseEvent
               THEN remainingTime' = targetTime * 1000
               ELSE remainingTime' = remainingTime]_vars

C29_Witness ==
    /\ remainingTime = 0
    /\ modalOpen
    /\ intervals = {}

----------------------------------------------------------------------------
(* Claims about the game-over condition *)

\* C30 (SpecRegistry): whatever names the registry holds, a board with a
\* complete line makes the game-over condition (winner || hasDraw) true
\* and is reported neither as a draw nor as still in progress.
C30_CompleteLineIsAWin ==
    CompleteLines(gameBoard) # {} =>
        /\ GameOverShown(winner, hasDraw)
        /\ ~hasDraw

====
